---------------------------- MODULE Spec2Model ----------------------------
(***************************************************************************)
(* A model of internal/chain/engine.go: the header/commit-signature        *)
(* verifier with its two LRU caches, the slashing applier and the block    *)
(* finalizer.  Its specifications:                                         *)
(*   Spec          the verification engine (VerifyHeader, VerifySeal,      *)
(*                 VerifyHeaderSignature and the caches behind them)       *)
(*   SpecSlash     applySlashes run on a set of double-sign records        *)
(*   SpecFinalize  Finalize, phase by phase, over a sequence of blocks     *)
(*   SpecBatch     VerifyHeaders: the worker goroutine and its caller      *)
(*   SpecBatchLive the same, with the goroutine scheduled fairly           *)
(*   SpecLock      GetLockPeriodInEpoch over chain configurations          *)
(*   SpecMemo      the verified-signature memo under a stream of commits   *)
(***************************************************************************)
EXTENDS Integers, Sequences, FiniteSets, TLC

VARIABLES
    \* ---- verification engine ----
    tip,               \* chain.CurrentHeader().Number()
    verifiedSigCache,  \* engineImpl.verifiedSigCache: LRU, oldest first
    epochCtxCache,     \* engineImpl.epochCtxCache: LRU of [key, ctx], oldest first
    call,              \* the last engine call: arguments, result, what it touched
    resolved,          \* history: epoch-context keys resolved from the chain so far
    usedCtx,           \* history: the epoch context each commit verification used, by key
    batch,             \* a VerifyHeaders call: its batch, its worker, its two channels
    lock,              \* a GetLockPeriodInEpoch call: chain config, epoch, result
    \* ---- slashing applier ----
    evidence,          \* the set of double-sign records of the block
    storedEpochs,      \* epochs whose shard state chain.ReadShardState returns
    runs,              \* the results of the applySlashes runs on that evidence
    \* ---- finalizer ----
    stateDB,           \* the state (balances, validator wrappers) Finalize mutates
    chain,             \* the finalizer's chain: current epoch, current staked validators
    fin,               \* the Finalize call in progress: position, inputs, outcome
    listed,            \* history: per validator, epoch of the newest finalized shard state listing it
    nBlocks            \* number of blocks committed

engineVars == <<tip, verifiedSigCache, epochCtxCache, call, resolved, usedCtx>>
slashVars  == <<evidence, storedEpochs, runs>>
finVars    == <<stateDB, chain, fin, listed, nBlocks>>
batchVars  == <<batch>>
lockVars   == <<lock>>
vars       == <<engineVars, slashVars, finVars, batchVars, lockVars>>

\* The error-free result of a Go function returning error.
nil == "nil"

(***************************************************************************)
(* Generic helpers.                                                        *)
(***************************************************************************)
Range(s) == {s[i] : i \in DOMAIN s}

\* All orderings of a finite set, as sequences without repetition.
Orderings(S) ==
    {s \in [1..Cardinality(S) -> S] : \A i, j \in DOMAIN s : s[i] = s[j] => i = j}

(***************************************************************************)
(* The slashing applier: applySlashes.                                     *)
(***************************************************************************)
\* Bound of the model: the number of double-sign records of one block.
MaxRecords == 3
\* Bound of the model: the number of applySlashes runs compared on one evidence set.
MaxRuns == 2

\* slash.Record, reduced to the fields applySlashes reads (Evidence.Height,
\* Evidence.ViewID, Evidence.Moment.ShardID, Evidence.Moment.Epoch) and the
\* offender that tells two records of one group apart.
Records ==
    [height : {9, 10}, viewID : {2, 3}, shardID : {0, 1}, epoch : {1, 2},
     offender : {"a", "b"}]

\* keyStruct of one record.
KeyOf(r) ==
    [height |-> r.height, viewID |-> r.viewID, shardID |-> r.shardID, epoch |-> r.epoch]

\* groupedRecords after the grouping loop: key -> the records of that key, in
\* the order of doubleSigners.
GroupRecords(doubleSigners) ==
    [k \in {KeyOf(doubleSigners[i]) : i \in DOMAIN doubleSigners} |->
        SelectSeq(doubleSigners, LAMBDA r : KeyOf(r) = k)]

\* The comparator handed to sort.SliceStable, as written: an else-if chain.
SlashLess(a, b) ==
    IF a.shardID < b.shardID THEN TRUE
    ELSE IF a.height < b.height THEN TRUE
    ELSE IF a.viewID < b.viewID THEN TRUE
    ELSE FALSE

SwapAt(s, i, j) == [s EXCEPT ![i] = s[j], ![j] = s[i]]

\* The inner loop of Go's insertion sort: element j sinks while it is less
\* than its left neighbour.
RECURSIVE Sink(_, _)
Sink(s, j) ==
    IF j > 1 /\ SlashLess(s[j], s[j - 1]) THEN Sink(SwapAt(s, j, j - 1), j - 1) ELSE s

RECURSIVE InsertionSortFrom(_, _)
InsertionSortFrom(s, i) ==
    IF i > Len(s) THEN s ELSE InsertionSortFrom(Sink(s, i), i + 1)

\* sort.SliceStable on fewer than 20 elements is one insertion sort.
SliceStable(s) == InsertionSortFrom(s, 2)

\* The slashing loop over the sorted keys.  A group whose epoch has no stored
\* shard state ends the loop with an error; the groups before it were applied.
RECURSIVE ApplyGroups(_, _, _, _)
ApplyGroups(sortedKeys, grouped, stored, done) ==
    IF sortedKeys = <<>> THEN [applied |-> done, err |-> nil]
    ELSE LET key == Head(sortedKeys) IN
         IF key.epoch \notin stored
         THEN [applied |-> done, err |-> "could not read shard state"]
         ELSE ApplyGroups(Tail(sortedKeys), grouped, stored,
                          Append(done, [key |-> key, records |-> grouped[key]]))

\* applySlashes(chain, header, state, doubleSigners), with the order in which
\* `for key := range groupedRecords` happens to visit the map.
applySlashes(doubleSigners, mapOrder, stored) ==
    ApplyGroups(SliceStable(mapOrder), GroupRecords(doubleSigners), stored, <<>>)

\* The keys of a run, in the order their groups went to slash.Rate/slash.Apply.
KeyOrder(out) == [i \in DOMAIN out.applied |-> out.applied[i].key]

\* The sets of at most n records.
RECURSIVE RecordSets(_)
RecordSets(n) ==
    IF n = 0 THEN {{}}
    ELSE LET smaller == RecordSets(n - 1) IN
         smaller \cup {S \cup {r} : S \in smaller, r \in Records}

EvidenceSets == RecordSets(MaxRecords)


\* One run of applySlashes on some ordering of the block's records.
ApplySlashes ==
    /\ Len(runs) < MaxRuns
    /\ \E ds \in Orderings(evidence) :
         \E mapOrder \in Orderings({KeyOf(r) : r \in evidence}) :
            runs' = Append(runs, applySlashes(ds, mapOrder, storedEpochs))
    /\ UNCHANGED <<evidence, storedEpochs, engineVars, finVars, batchVars, lockVars>>

(***************************************************************************)
(* The verification engine.                                                *)
(***************************************************************************)
\* const verifiedSigCache, epochCtxCache: the capacities of the two LRUs.
verifiedSigCacheSize == 20
epochCtxCacheSize == 20
\* const bitmapKeyBytes.
bitmapKeyBytes == 64
\* Bound of the model: the highest block number the chain's tip can have.
MaxTip == 2

\* ---- hashicorp/golang-lru, as a sequence ordered oldest first ----
LruKeys(c) == {c[i].key : i \in DOMAIN c}
LruContains(c, k) == k \in LruKeys(c)
LruLookup(c, k) == c[CHOOSE i \in DOMAIN c : c[i].key = k].value
\* Cache.Get: a hit makes the entry the most recently used.
LruTouch(c, k) ==
    IF LruContains(c, k)
    THEN Append(SelectSeq(c, LAMBDA e : e.key # k), [key |-> k, value |-> LruLookup(c, k)])
    ELSE c
\* Cache.Add: insert or refresh as most recent, evict the oldest beyond size.
LruAdd(c, k, v, size) ==
    LET put == Append(SelectSeq(c, LAMBDA e : e.key # k), [key |-> k, value |-> v])
    IN IF Len(put) > size THEN Tail(put) ELSE put

\* ---- the chain behind engine.ChainReader ----
\* chain.ShardID(): the engine's chain is shard 0.
ChainShardID == 0
\* chain.Config().IsStaking(epoch): the staking era starts at epoch 2.
StakingEpoch == 2
IsStaking(epoch) == epoch >= StakingEpoch

ShardIDs == {0, 1}
UnknownHash == 99
NoHeader == [hash |-> UnknownHash, number |-> 0 - 1, epoch |-> 0, shardID |-> 0, viewID |-> 0]

\* Block n of the engine's own chain: two blocks per epoch, epochs from 1.
BlockEpoch(n) == 1 + (n \div 2)
ChainBlock(n) ==
    [hash |-> n, number |-> n, epoch |-> BlockEpoch(n), shardID |-> ChainShardID,
     viewID |-> n + 1]
\* A header of shard 1 received cross-shard, one per epoch 0..3.
CrossHeader(e) ==
    [hash |-> 10 + e, number |-> 2 * e, epoch |-> e, shardID |-> 1, viewID |-> 2 * e + 1]

\* chain.GetHeader(hash, number): the chain holds blocks 0..tip.
GetHeader(t, hash, number) ==
    IF number \in 0..t /\ hash = ChainBlock(number).hash THEN ChainBlock(number) ELSE NoHeader

\* A committee: its shard, its epoch and the number of its slots; slot i of
\* committee c holds BLS key <<c.shard, c.epoch, i>>.
Committee(shard, epoch) ==
    [shard |-> shard, epoch |-> epoch, slots |-> IF shard = 0 THEN 8 ELSE 512]

\* chain.ReadShardState(epoch): stored for epochs 1 and 2.  A pre-staking
\* shard state stored by this chain holds its own committee only.
ReadShardState(epoch) ==
    IF epoch \notin {1, 2} THEN [err |-> "read shard state", shards |-> {}, epoch |-> epoch]
    ELSE [err |-> nil, epoch |-> epoch,
          shards |-> IF IsStaking(epoch) THEN ShardIDs ELSE {ChainShardID}]

\* committee.WithStakingEnabled.Compute(epoch, chain): every shard's committee,
\* recomputed; only possible for the epochs the beacon data covers.
ComputeShardState(epoch) ==
    IF epoch \notin {1, 2} THEN [err |-> "compute shard state", shards |-> {}, epoch |-> epoch]
    ELSE [err |-> nil, epoch |-> epoch, shards |-> ShardIDs]

needRecalculateStateShardInAnyEra(epoch, targetShardID) ==
    targetShardID # ChainShardID

\* needRecalculateStateShard: only for a non-staking epoch and a shard other
\* than the chain's own.
needRecalculateStateShard(epoch, targetShardID) ==
    IF IsStaking(epoch) THEN FALSE ELSE targetShardID # ChainShardID

\* readShardState: the shard state and the source it came from.
readShardState(epoch, targetShardID) ==
    IF needRecalculateStateShard(epoch, targetShardID)
    THEN [ss |-> ComputeShardState(epoch), source |-> "Compute"]
    ELSE [ss |-> ReadShardState(epoch), source |-> "ReadShardState"]

readEpochCtxFromChainOfOwnShard(epoch, targetShardID) ==
    LET r == readShardState(epoch, targetShardID) IN
    IF r.ss.err # nil
    THEN [err |-> r.ss.err, source |-> r.source, ec |-> <<>>]
    ELSE IF targetShardID \notin r.ss.shards
    THEN [err |-> "find committee", source |-> r.source, ec |-> <<>>]
    ELSE LET comm == Committee(ChainShardID, epoch) IN
         [err |-> nil, source |-> r.source,
          ec |-> [pubKeys |-> comm,
                  qrVerifier |-> [isStaking |-> IsStaking(epoch), total |-> comm.slots]]]

\* readEpochCtxFromChain: the committee's keys and its quorum verifier.
readEpochCtxFromChain(epoch, targetShardID) ==
    LET r == readShardState(epoch, targetShardID) IN
    IF r.ss.err # nil
    THEN [err |-> r.ss.err, source |-> r.source, ec |-> <<>>]
    ELSE IF targetShardID \notin r.ss.shards
    THEN [err |-> "find committee", source |-> r.source, ec |-> <<>>]
    ELSE LET comm == Committee(targetShardID, epoch) IN
         [err |-> nil, source |-> r.source,
          ec |-> [pubKeys |-> comm,
                  qrVerifier |-> [isStaking |-> IsStaking(epoch), total |-> comm.slots]]]

newEpochCtxKeyFromHeader(header) == [shardID |-> header.shardID, epoch |-> header.epoch]

\* getCachedEpochCtx: Get on the epoch-context LRU.
getCachedEpochCtx(ctxCache, header) ==
    LET ecKey == newEpochCtxKeyFromHeader(header) IN
    IF LruContains(ctxCache, ecKey)
    THEN [ok |-> TRUE, ec |-> LruLookup(ctxCache, ecKey), cache |-> LruTouch(ctxCache, ecKey)]
    ELSE [ok |-> FALSE, ec |-> <<>>, cache |-> ctxCache]

\* ---- signatures and bitmaps ----
\* A byte sequence of n bytes b.
Bytes(n, b) == [i \in 1..n |-> b]

\* signature.ConstructCommitPayload(chain, epoch, hash, number, viewID).
ConstructCommitPayload(header) ==
    [epoch |-> header.epoch, hash |-> header.hash, number |-> header.number,
     viewID |-> header.viewID]

\* A serialized aggregate signature, by what it is a signature of: the payload
\* signed, the signers (as their participation mask), and whether the 96 bytes
\* deserialize at all.
AggSig(header, mask) == [msg |-> ConstructCommitPayload(header), by |-> mask, wellFormed |-> TRUE]
ForgedSig == [msg |-> ConstructCommitPayload(NoHeader), by |-> <<>>, wellFormed |-> TRUE]
MalformedSig == [msg |-> ConstructCommitPayload(NoHeader), by |-> <<>>, wellFormed |-> FALSE]

\* The mask of a committee all of whose slots signed.
MaskLen(slots) == (slots + 7) \div 8
FullMask(comm) == Bytes(MaskLen(comm.slots), 255)

RECURSIVE PopCount(_)
PopCount(b) == IF b = 0 THEN 0 ELSE (b % 2) + PopCount(b \div 2)
RECURSIVE CountBits(_)
CountBits(mask) == IF mask = <<>> THEN 0 ELSE PopCount(Head(mask)) + CountBits(Tail(mask))

\* DecodeSigBitmap(commitSig, commitBitmap, pubKeys): the signature must
\* deserialize and the bitmap must be a mask over the committee's keys, one
\* bit per key; a bitmap of more than bitmapKeyBytes bytes is rejected.
DecodeSigBitmap(sig, bitmap, pubKeys) ==
    IF ~sig.wellFormed THEN [err |-> "deserialize signature"]
    ELSE IF Len(bitmap) > bitmapKeyBytes THEN [err |-> "bitmap too long"]
    ELSE IF Len(bitmap) # MaskLen(pubKeys.slots) THEN [err |-> "mismatching bitmap lengths"]
    ELSE [err |-> nil, aggSig |-> sig, mask |-> bitmap]

\* quorum.Verifier.IsQuorumAchievedByMask: more than two thirds of the votes.
IsQuorumAchievedByMask(qrVerifier, mask) ==
    CountBits(mask) >= (2 * qrVerifier.total) \div 3 + 1

\* aggSig.VerifyHash(mask.AggregatePublic, commitPayload): the signature is
\* one of exactly the mask's signers over exactly this payload.
VerifyHash(aggSig, mask, commitPayload) == aggSig.msg = commitPayload /\ aggSig.by = mask

\* newVerifiedSigKey: copy() fills a 64-byte array from the bitmap, cutting
\* what is longer and leaving zeros where it is shorter.
newVerifiedSigKey(blockHash, sig, bitmap) ==
    [blockHash |-> blockHash, signature |-> sig,
     bitmap |-> [i \in 1..bitmapKeyBytes |-> IF i <= Len(bitmap) THEN bitmap[i] ELSE 0]]

\* What a verification did on its way, beside its verdict; ec holds the
\* epoch context it verified against, if it got one.
NoSteps ==
    [memoLookup |-> FALSE, memoHit |-> FALSE, ctxHit |-> FALSE, source |-> "none",
     ctxResolved |-> FALSE, decoded |-> FALSE, quorumChecked |-> FALSE, blsVerified |-> FALSE,
     ec |-> <<>>]

\* verifyHeaderSignature: the full verification.  Returns the verdict, the
\* epoch-context cache afterwards and the steps taken.
verifyHeaderSignature(ctxCache, header, commitSig, commitBitmap) ==
    LET cached == getCachedEpochCtx(ctxCache, header)
        read   == readEpochCtxFromChain(header.epoch, header.shardID)
        steps0 == [NoSteps EXCEPT !.ctxHit = cached.ok,
                                  !.source = IF cached.ok THEN "none" ELSE read.source]
    IN
    IF ~cached.ok /\ read.err # nil
    THEN [err |-> read.err, ctxCache |-> cached.cache, steps |-> steps0]
    ELSE
    LET ec     == IF cached.ok THEN cached.ec ELSE read.ec
        steps1 == [steps0 EXCEPT !.ctxResolved = ~cached.ok, !.decoded = TRUE, !.ec = <<ec>>]
        dec    == DecodeSigBitmap(commitSig, commitBitmap, ec.pubKeys)
    IN
    IF dec.err # nil
    THEN [err |-> dec.err, ctxCache |-> cached.cache, steps |-> steps1]
    ELSE IF ~IsQuorumAchievedByMask(ec.qrVerifier, dec.mask)
    THEN [err |-> "not enough signature collected", ctxCache |-> cached.cache,
          steps |-> [steps1 EXCEPT !.quorumChecked = TRUE]]
    ELSE IF ~VerifyHash(dec.aggSig, dec.mask, ConstructCommitPayload(header))
    THEN [err |-> "Unable to verify aggregated signature for block", ctxCache |-> cached.cache,
          steps |-> [steps1 EXCEPT !.quorumChecked = TRUE, !.blsVerified = TRUE]]
    ELSE [err |-> nil, ctxCache |-> cached.cache,
          steps |-> [steps1 EXCEPT !.quorumChecked = TRUE, !.blsVerified = TRUE]]

verifyHeaderSignatureCachedWithoutAdd(sigCache, ctxCache, header, commitSig, commitBitmap) ==
    LET key == newVerifiedSigKey(header.hash, commitSig, commitBitmap) IN
    IF LruContains(sigCache, key)
    THEN [err |-> nil, sigCache |-> LruTouch(sigCache, key), ctxCache |-> ctxCache,
          steps |-> [NoSteps EXCEPT !.memoLookup = TRUE, !.memoHit = TRUE]]
    ELSE LET full == verifyHeaderSignature(ctxCache, header, commitSig, commitBitmap) IN
         [err |-> full.err, sigCache |-> sigCache, ctxCache |-> full.ctxCache,
          steps |-> [full.steps EXCEPT !.memoLookup = TRUE]]

verifyHeaderSignatureCachedAddingAlways(sigCache, ctxCache, header, commitSig, commitBitmap) ==
    LET key == newVerifiedSigKey(header.hash, commitSig, commitBitmap) IN
    IF LruContains(sigCache, key)
    THEN [err |-> nil, sigCache |-> LruTouch(sigCache, key), ctxCache |-> ctxCache,
          steps |-> [NoSteps EXCEPT !.memoLookup = TRUE, !.memoHit = TRUE]]
    ELSE LET full == verifyHeaderSignature(ctxCache, header, commitSig, commitBitmap) IN
         [err |-> full.err, sigCache |-> LruAdd(sigCache, key, TRUE, verifiedSigCacheSize),
          ctxCache |-> full.ctxCache, steps |-> [full.steps EXCEPT !.memoLookup = TRUE]]

\* verifyHeaderSignatureCached: the memo in front of the full verification.
\* Returns the verdict, both caches afterwards and the steps taken.
verifyHeaderSignatureCached(sigCache, ctxCache, header, commitSig, commitBitmap) ==
    LET key == newVerifiedSigKey(header.hash, commitSig, commitBitmap) IN
    IF LruContains(sigCache, key)
    THEN [err |-> nil, sigCache |-> LruTouch(sigCache, key), ctxCache |-> ctxCache,
          steps |-> [NoSteps EXCEPT !.memoLookup = TRUE, !.memoHit = TRUE]]
    ELSE LET full == verifyHeaderSignature(ctxCache, header, commitSig, commitBitmap) IN
         [err |-> full.err,
          sigCache |-> IF full.err = nil
                       THEN LruAdd(sigCache, key, TRUE, verifiedSigCacheSize)
                       ELSE sigCache,
          ctxCache |-> full.ctxCache,
          steps |-> [full.steps EXCEPT !.memoLookup = TRUE]]

\* header.Number().Uint64()-1: for number 0 the subtraction wraps to 2^64-1,
\* a number no stored header has; -1 stands for it.
ParentNumber(header) == header.number - 1

VerifySealOfHeaderItself(t, sigCache, ctxCache, header) ==
    IF t <= 1 \/ header = NoHeader
          \/ GetHeader(t, header.parentHash, ParentNumber(header)) = NoHeader
    THEN [err |-> IF t <= 1 THEN nil ELSE "[VerifySeal] no parent header found",
          sigCache |-> sigCache, ctxCache |-> ctxCache, steps |-> NoSteps]
    ELSE verifyHeaderSignatureCached(sigCache, ctxCache, header,
                                     header.lastCommitSig, header.lastCommitBitmap)

\* VerifySeal.  Returns the verdict, both caches afterwards, the steps taken.
VerifySeal(t, sigCache, ctxCache, header) ==
    LET untouched(e) == [err |-> e, sigCache |-> sigCache, ctxCache |-> ctxCache,
                         steps |-> NoSteps]
    IN
    IF t <= 1 THEN untouched(nil)
    ELSE IF header = NoHeader THEN untouched("[VerifySeal] nil block header")
    ELSE LET parentHeader == GetHeader(t, header.parentHash, ParentNumber(header)) IN
         IF parentHeader = NoHeader THEN untouched("[VerifySeal] no parent header found")
         ELSE LET r == verifyHeaderSignatureCached(sigCache, ctxCache, parentHeader,
                                                   header.lastCommitSig, header.lastCommitBitmap)
              IN [r EXCEPT !.err = IF r.err = nil THEN nil ELSE "verify signature for parent"]

\* VerifyHeader.
VerifyHeader(t, sigCache, ctxCache, header, seal) ==
    LET parentHeader == GetHeader(t, header.parentHash, ParentNumber(header)) IN
    IF parentHeader = NoHeader
    THEN [err |-> "unknown ancestor", sigCache |-> sigCache, ctxCache |-> ctxCache,
          steps |-> NoSteps]
    ELSE IF seal THEN VerifySeal(t, sigCache, ctxCache, header)
    ELSE [err |-> nil, sigCache |-> sigCache, ctxCache |-> ctxCache, steps |-> NoSteps]

VerifyHeaderSignatureAtAnyTip(t, sigCache, ctxCache, header, commitSig, commitBitmap) ==
    verifyHeaderSignatureCached(sigCache, ctxCache, header, commitSig, commitBitmap)

\* VerifyHeaderSignature.
VerifyHeaderSignature(t, sigCache, ctxCache, header, commitSig, commitBitmap) ==
    IF t <= 1
    THEN [err |-> nil, sigCache |-> sigCache, ctxCache |-> ctxCache, steps |-> NoSteps]
    ELSE verifyHeaderSignatureCached(sigCache, ctxCache, header, commitSig, commitBitmap)

\* ---- the inputs the engine is called with ----
SigInputs ==
    {AggSig(ChainBlock(1), FullMask(Committee(0, 1))),
     AggSig(CrossHeader(1), FullMask(Committee(1, 1))),
     AggSig(CrossHeader(2), FullMask(Committee(1, 2))),
     ForgedSig, MalformedSig}

BitmapInputs ==
    {<<255>>, <<15>>, <<255, 0>>, Bytes(64, 255), Bytes(65, 255)}

\* Headers handed to VerifyHeaderSignature: blocks of the own chain and
\* headers of shard 1.
SignedHeaderInputs ==
    {ChainBlock(n) : n \in 0..MaxTip} \cup {CrossHeader(e) : e \in 0..3}

\* Headers handed to VerifyHeader and VerifySeal: a candidate block carrying
\* the commit of its parent.
CandidateHeader(n, parentHash, sig, bitmap) ==
    [hash |-> 20 + n, number |-> n, epoch |-> BlockEpoch(n), shardID |-> ChainShardID,
     viewID |-> n + 1, parentHash |-> parentHash, lastCommitSig |-> sig,
     lastCommitBitmap |-> bitmap]

\* A candidate whose parent is unknown is turned away before its commit is
\* read, so one commit stands for all.
CandidateInputs ==
    {CandidateHeader(n, n - 1, sig, bm) :
        n \in 0..(MaxTip + 1), sig \in SigInputs, bm \in BitmapInputs}
    \cup {CandidateHeader(n, UnknownHash, ForgedSig, <<255>>) : n \in 0..(MaxTip + 1)}

NoCall ==
    [op |-> "none", header |-> NoHeader, sig |-> ForgedSig, bitmap |-> <<>>, seal |-> FALSE,
     target |-> NoHeader, err |-> nil, steps |-> NoSteps, sigCacheBefore |-> <<>>, ctxCacheBefore |-> <<>>]

\* NewEngine(): both caches empty.  The parts of the state the engine does
\* not use stay as they start.
Init ==
    /\ tip \in 0..MaxTip
    /\ verifiedSigCache = <<>>
    /\ epochCtxCache = <<>>
    /\ call = NoCall
    /\ resolved = {} /\ usedCtx = {}
    /\ evidence = {} /\ storedEpochs = {} /\ runs = <<>>
    /\ stateDB = <<>> /\ chain = <<>> /\ fin = <<>> /\ listed = <<>> /\ nBlocks = 0
    /\ batch = <<>> /\ lock = <<>>

\* The engine after a call with result r, made once the previous result was
\* taken: the caches as the call left them, the call recorded, the histories
\* of resolved and of used epoch contexts extended.
Returned(op, header, sig, bitmap, seal, target, r) ==
    /\ call = NoCall
    /\ verifiedSigCache' = r.sigCache
    /\ epochCtxCache' = r.ctxCache
    /\ call' = [op |-> op, header |-> header, sig |-> sig, bitmap |-> bitmap, seal |-> seal,
                target |-> target, err |-> r.err, steps |-> r.steps,
                sigCacheBefore |-> verifiedSigCache, ctxCacheBefore |-> epochCtxCache]
    /\ resolved' = IF r.steps.ctxResolved
                   THEN resolved \cup {newEpochCtxKeyFromHeader(target)}
                   ELSE resolved
    /\ usedCtx' = IF r.steps.ec # <<>>
                  THEN usedCtx \cup {[key |-> newEpochCtxKeyFromHeader(target), ec |-> r.steps.ec[1]]}
                  ELSE usedCtx
    /\ UNCHANGED <<tip, slashVars, finVars, batchVars, lockVars>>

DoVerifyHeader ==
    \E header \in CandidateInputs, seal \in BOOLEAN :
        Returned("VerifyHeader", header, header.lastCommitSig, header.lastCommitBitmap, seal,
                 GetHeader(tip, header.parentHash, ParentNumber(header)),
                 VerifyHeader(tip, verifiedSigCache, epochCtxCache, header, seal))

DoVerifySeal ==
    \E header \in CandidateInputs :
        Returned("VerifySeal", header, header.lastCommitSig, header.lastCommitBitmap, TRUE,
                 GetHeader(tip, header.parentHash, ParentNumber(header)),
                 VerifySeal(tip, verifiedSigCache, epochCtxCache, header))

DoVerifyHeaderSignature ==
    \E header \in SignedHeaderInputs, sig \in SigInputs, bitmap \in BitmapInputs :
        Returned("VerifyHeaderSignature", header, sig, bitmap, TRUE, header,
                 VerifyHeaderSignature(tip, verifiedSigCache, epochCtxCache, header, sig, bitmap))


\* The caller takes the result of the call; the engine is ready for the next.
TakeResult ==
    /\ call # NoCall
    /\ call' = NoCall
    /\ UNCHANGED <<tip, verifiedSigCache, epochCtxCache, resolved, usedCtx, slashVars, finVars,
                   batchVars, lockVars>>

Next ==
    \/ DoVerifyHeader
    \/ DoVerifySeal
    \/ DoVerifyHeaderSignature
    \/ TakeResult

Spec == Init /\ [][Next]_vars

\* A block's evidence and the shard states the chain has stored.
InitSlash ==
    /\ evidence \in EvidenceSets
    /\ storedEpochs \in {{1, 2}, {1}}
    /\ runs = <<>>
    /\ tip = 0 /\ verifiedSigCache = <<>> /\ epochCtxCache = <<>> /\ call = <<>>
    /\ resolved = {} /\ usedCtx = {}
    /\ stateDB = <<>> /\ chain = <<>> /\ fin = <<>> /\ listed = <<>> /\ nBlocks = 0
    /\ batch = <<>> /\ lock = <<>>

NextSlash == ApplySlashes

SpecSlash == InitSlash /\ [][NextSlash]_vars

(***************************************************************************)
(* The verified-signature memo under a stream of commits: more distinct    *)
(* commits of one block than the memo holds.                               *)
(***************************************************************************)
\* Bound of the model: the number of distinct commits verified successfully.
MaxMemoKeys == 21

\* The block whose commits are verified, and its committee.
MemoHeader == ChainBlock(1)
MemoCommittee == Committee(MemoHeader.shardID, MemoHeader.epoch)

\* The one-byte masks of that committee with a quorum of signers, from the
\* full mask down: different quorums of signers commit the same block.
QuorumBytes ==
    {b \in 0..255 :
        IsQuorumAchievedByMask([isStaking |-> FALSE, total |-> MemoCommittee.slots], <<b>>)}
QuorumMasks ==
    [k \in 1..Cardinality(QuorumBytes) |->
        <<CHOOSE b \in QuorumBytes : Cardinality({c \in QuorumBytes : c >= b}) = k>>]

\* The place in QuorumMasks of the next commit not verified yet: one past
\* the highest place of a key in the memo.
NextMask(sigCache) ==
    LET places == {k \in DOMAIN QuorumMasks :
                      newVerifiedSigKey(MemoHeader.hash, AggSig(MemoHeader, QuorumMasks[k]),
                                        QuorumMasks[k]) \in LruKeys(sigCache)}
    IN IF places = {} THEN 1 ELSE 1 + (CHOOSE k \in places : \A j \in places : j <= k)

\* Commits that fail: at context resolution (no shard state to read, none to
\* recompute), at decoding (signature, bitmap length), at the quorum check
\* and at the signature check.
FailingCommits(mask) ==
    {[header |-> CrossHeader(3), sig |-> AggSig(CrossHeader(3), FullMask(Committee(1, 3))),
      bitmap |-> FullMask(Committee(1, 3))],
     [header |-> CrossHeader(0), sig |-> AggSig(CrossHeader(0), FullMask(Committee(1, 0))),
      bitmap |-> FullMask(Committee(1, 0))],
     [header |-> MemoHeader, sig |-> MalformedSig, bitmap |-> mask],
     [header |-> MemoHeader, sig |-> AggSig(MemoHeader, Bytes(64, 255)), bitmap |-> Bytes(64, 255)],
     [header |-> MemoHeader, sig |-> AggSig(MemoHeader, <<15>>), bitmap |-> <<15>>],
     [header |-> MemoHeader, sig |-> ForgedSig, bitmap |-> mask]}

\* NewEngine() on a chain whose tip is block 2.
InitMemo ==
    /\ tip = 2
    /\ verifiedSigCache = <<>>
    /\ epochCtxCache = <<>>
    /\ call = NoCall
    /\ resolved = {} /\ usedCtx = {}
    /\ evidence = {} /\ storedEpochs = {} /\ runs = <<>>
    /\ stateDB = <<>> /\ chain = <<>> /\ fin = <<>> /\ listed = <<>> /\ nBlocks = 0
    /\ batch = <<>> /\ lock = <<>>

\* The next commit of the block, by a quorum not seen before.
VerifyNewCommit ==
    /\ NextMask(verifiedSigCache) <= MaxMemoKeys
    /\ LET mask == QuorumMasks[NextMask(verifiedSigCache)]
           sig == AggSig(MemoHeader, mask)
       IN Returned("VerifyHeaderSignature", MemoHeader, sig, mask, TRUE, MemoHeader,
                   VerifyHeaderSignature(tip, verifiedSigCache, epochCtxCache, MemoHeader, sig, mask))

\* The commit verified last, once more.
VerifyCommitAgain ==
    /\ verifiedSigCache # <<>>
    /\ LET key == verifiedSigCache[Len(verifiedSigCache)].key
           mask == <<key.bitmap[1]>>
       IN Returned("VerifyHeaderSignature", MemoHeader, key.signature, mask, TRUE, MemoHeader,
                   VerifyHeaderSignature(tip, verifiedSigCache, epochCtxCache, MemoHeader,
                                         key.signature, mask))

\* A commit that fails.
VerifyFailingCommit ==
    /\ NextMask(verifiedSigCache) <= MaxMemoKeys
    /\ \E c \in FailingCommits(QuorumMasks[NextMask(verifiedSigCache)]) :
         Returned("VerifyHeaderSignature", c.header, c.sig, c.bitmap, TRUE, c.header,
                  VerifyHeaderSignature(tip, verifiedSigCache, epochCtxCache, c.header,
                                        c.sig, c.bitmap))

NextMemo ==
    \/ VerifyNewCommit
    \/ VerifyCommitAgain
    \/ VerifyFailingCommit
    \/ TakeResult

SpecMemo == InitMemo /\ [][NextMemo]_vars

(***************************************************************************)
(* VerifyHeaders: the batch, the worker goroutine and its two channels.    *)
(***************************************************************************)
\* Bound of the model: the number of headers in a batch.
MaxBatch == 2

\* The (header, seal) pairs a batch is made of, on a chain whose tip is t: a
\* child of the tip's parent carrying a good commit, the same with the bitmap
\* padded by a zero byte, with a forged commit (sealed or not), and a header
\* whose parent the chain does not hold.
BatchItems(t) ==
    LET n == IF t = 0 THEN 1 ELSE t
        parent == ChainBlock(n - 1)
        comm == Committee(parent.shardID, parent.epoch)
        good == AggSig(parent, FullMask(comm))
    IN {[header |-> CandidateHeader(n, parent.hash, good, FullMask(comm)), seal |-> TRUE],
        [header |-> CandidateHeader(n, parent.hash, good, FullMask(comm) \o <<0>>), seal |-> TRUE],
        [header |-> CandidateHeader(n, parent.hash, ForgedSig, FullMask(comm)), seal |-> TRUE],
        [header |-> CandidateHeader(n, parent.hash, ForgedSig, FullMask(comm)), seal |-> FALSE],
        [header |-> CandidateHeader(n + 1, UnknownHash, good, FullMask(comm)), seal |-> TRUE]}

\* The batches: headers and seals of equal length, at most MaxBatch long.
Batches(t) == UNION {[1..n -> BatchItems(t)] : n \in 0..MaxBatch}

ResultsCapOneLess(headers) == Len(headers) - 1

\* make(chan error, len(headers)): the capacity of the results channel.
ResultsCap(headers) == Len(headers)

BatchItemFromTheEnd(b, i) == b.headers[Len(b.headers) + 1 - i]

\* for i, header := range headers: the header and seals[i] of iteration i.
BatchItem(b, i) == b.headers[i]

\* VerifyHeaders(chain, headers, seals) as it returns: the goroutine at the
\* top of its loop, both channels empty and open.  started counts the
\* verifications begun, sent lists every value sent on results, atAbort holds
\* both counts as they were when the caller closed abort.
NewBatch(headers) ==
    [headers |-> headers, i |-> 1, pc |-> "loop", err |-> nil, results |-> <<>>,
     aborted |-> FALSE, started |-> 0, sent |-> <<>>,
     atAbort |-> [started |-> 0, sent |-> 0]]

InitBatch ==
    /\ tip \in 0..MaxTip
    /\ batch \in {NewBatch(headers) : headers \in Batches(tip)}
    /\ verifiedSigCache = <<>> /\ epochCtxCache = <<>> /\ call = NoCall
    /\ resolved = {} /\ usedCtx = {}
    /\ evidence = {} /\ storedEpochs = {} /\ runs = <<>>
    /\ stateDB = <<>> /\ chain = <<>> /\ fin = <<>> /\ listed = <<>> /\ nBlocks = 0
    /\ lock = <<>>

\* The top of the range loop: the next header, or the end of the goroutine.
WorkerStart ==
    /\ batch.pc = "loop"
    /\ batch' = IF batch.i <= Len(batch.headers)
                THEN [batch EXCEPT !.pc = "verifying", !.started = @ + 1]
                ELSE [batch EXCEPT !.pc = "done"]
    /\ UNCHANGED <<engineVars, slashVars, finVars, lockVars>>

\* err := e.VerifyHeader(chain, header, seals[i]).
WorkerVerify ==
    /\ batch.pc = "verifying"
    /\ LET item == BatchItem(batch, batch.i)
           r == VerifyHeader(tip, verifiedSigCache, epochCtxCache, item.header, item.seal)
       IN /\ verifiedSigCache' = r.sigCache
          /\ epochCtxCache' = r.ctxCache
          /\ batch' = [batch EXCEPT !.pc = "select", !.err = r.err]
    /\ UNCHANGED <<tip, call, resolved, usedCtx, slashVars, finVars, lockVars>>

\* select, case results <- err: ready while the buffer has room.
WorkerSend ==
    /\ batch.pc = "select"
    /\ Len(batch.results) < ResultsCap(batch.headers)
    /\ batch' = [batch EXCEPT !.results = Append(@, batch.err), !.sent = Append(@, batch.err),
                              !.i = @ + 1, !.pc = "loop"]
    /\ UNCHANGED <<engineVars, slashVars, finVars, lockVars>>

\* select, case <-abort: ready once abort is closed; return.  When both
\* cases are ready the select takes either.
WorkerQuit ==
    /\ batch.pc = "select"
    /\ batch.aborted
    /\ batch' = [batch EXCEPT !.pc = "done"]
    /\ UNCHANGED <<engineVars, slashVars, finVars, lockVars>>

\* The caller raises the abort signal: close(abort).
CallerAbort ==
    /\ ~batch.aborted
    /\ batch' = [batch EXCEPT !.aborted = TRUE,
                              !.atAbort = [started |-> batch.started, sent |-> Len(batch.sent)]]
    /\ UNCHANGED <<engineVars, slashVars, finVars, lockVars>>

\* The caller receives from results.
CallerRead ==
    /\ batch.results # <<>>
    /\ batch' = [batch EXCEPT !.results = Tail(@)]
    /\ UNCHANGED <<engineVars, slashVars, finVars, lockVars>>

Worker == WorkerStart \/ WorkerVerify \/ WorkerSend \/ WorkerQuit

NextBatch ==
    \/ WorkerStart
    \/ WorkerVerify
    \/ WorkerSend
    \/ WorkerQuit
    \/ CallerAbort
    \/ CallerRead

SpecBatch == InitBatch /\ [][NextBatch]_vars

\* The goroutine is scheduled whenever it can take a step; the caller may
\* read, abort or do neither.
SpecBatchLive == InitBatch /\ [][NextBatch]_vars /\ WF_vars(Worker)

(***************************************************************************)
(* The finalizer.                                                          *)
(***************************************************************************)
\* Bound of the model: the number of blocks committed.
MaxBlocks == 3
\* Bound of the model: the number of undelegations made before they are paid out.
MaxUndelegations == 2

\* chain.Config(): the epochs at which the forks become active.
PreStakingEpoch == 1
QuickUnlockEpoch == 1
NoEarlyUnlockEpoch == 3
RedelegationEpoch == 4
S3Epoch == 2
IsPreStaking(epoch) == epoch >= PreStakingEpoch
IsQuickUnlock(epoch) == epoch >= QuickUnlockEpoch
IsNoEarlyUnlock(epoch) == epoch >= NoEarlyUnlockEpoch
IsRedelegation(epoch) == epoch >= RedelegationEpoch
IsS3(epoch) == epoch >= S3Epoch

\* staking.LockPeriodInEpoch and staking.LockPeriodInEpochV2.
LockPeriodInEpoch == 7
LockPeriodInEpochV2 == 2

\* shard.BeaconChainShardID.
BeaconChainShardID == 0

\* GetLockPeriodInEpoch.
GetLockPeriodInEpochOn(config, epoch) ==
    LET isRedelegation == epoch >= config.RedelegationEpoch
        isQuickUnlock  == epoch >= config.QuickUnlockEpoch
    IN IF isRedelegation THEN LockPeriodInEpoch
       ELSE IF isQuickUnlock THEN LockPeriodInEpochV2
       ELSE LockPeriodInEpoch

\* The two fork epochs of the finalizer's chain that the lock period reads.
ChainConfig ==
    [RedelegationEpoch |-> RedelegationEpoch, QuickUnlockEpoch |-> QuickUnlockEpoch]

\* GetLockPeriodInEpoch on the finalizer's chain.
GetLockPeriodInEpoch(epoch) == GetLockPeriodInEpochOn(ChainConfig, epoch)

\* IsCommitteeSelectionBlock.
IsCommitteeSelectionBlock(header) ==
    LET isBeaconChain   == header.shardID = BeaconChainShardID
        inPreStakingEra == IsPreStaking(header.epoch)
    IN isBeaconChain /\ header.isLastBlockInEpoch /\ inPreStakingEra

\* ---- the state: account balances and validator wrappers ----
Accounts == {"v1", "v2", "d1", "d2"}
\* The validators with a wrapper in the state; "v3" has none.
StateValidators == {"v1", "v2"}

\* The delegations of each validator, with nothing pending.
InitialDelegations(v) ==
    IF v = "v1"
    THEN <<[DelegatorAddress |-> "d1", Undelegations |-> <<>>],
           [DelegatorAddress |-> "d2", Undelegations |-> <<>>]>>
    ELSE <<[DelegatorAddress |-> "v2", Undelegations |-> <<>>],
           [DelegatorAddress |-> "d1", Undelegations |-> <<>>]>>

\* The amount a delegator undelegates from a validator's i-th delegation.
UndelegatedAmount(v, i) == IF v = "v1" THEN i ELSE 4 * i

\* state.ValidatorWrapper(addr): the wrapper, or an error for an address
\* without one.
HasWrapper(st, addr) == addr \in DOMAIN st.wrappers

\* A mutation made to the state outside the fields modelled here: an account
\* touched by AddBalance, EPoS status, signing counts and rewards, slashed
\* stake.  The journal of a state lists them in the order made.
NoKey == [height |-> 0, viewID |-> 0, shardID |-> 0, epoch |-> 0]
Mutation(kind, addr, key) == [kind |-> kind, addr |-> addr, key |-> key]

\* state.AddBalance(addr, amount).
AddBalance(st, addr, amount) ==
    [st EXCEPT !.balance[addr] = @ + amount,
               !.journal = Append(@, Mutation("credit", addr, NoKey))]

\* delegation.RemoveUnlockedUndelegations(curEpoch, lastEpochInCommittee,
\* lockPeriod, noEarlyUnlock): the leading undelegations that are unlocked
\* (the lock period has passed, or, unless noEarlyUnlock, the validator has
\* been out of the committee since the undelegation) are removed and summed.
Unlocked(u, curEpoch, lastEpochInCommittee, lockPeriod, noEarlyUnlock) ==
    LET epochsSinceUndelegation == curEpoch - u.Epoch IN
    \/ epochsSinceUndelegation >= lockPeriod
    \/ ~noEarlyUnlock /\ curEpoch - lastEpochInCommittee > epochsSinceUndelegation

RECURSIVE RemoveUnlockedUndelegations(_, _, _, _, _)
RemoveUnlockedUndelegations(undelegations, curEpoch, lastEpochInCommittee, lockPeriod, noEarlyUnlock) ==
    IF undelegations # <<>>
       /\ Unlocked(Head(undelegations), curEpoch, lastEpochInCommittee, lockPeriod, noEarlyUnlock)
    THEN LET rest == RemoveUnlockedUndelegations(Tail(undelegations), curEpoch,
                                                 lastEpochInCommittee, lockPeriod, noEarlyUnlock)
         IN [totalWithdraw |-> Head(undelegations).Amount + rest.totalWithdraw,
             left |-> rest.left]
    ELSE [totalWithdraw |-> 0, left |-> undelegations]

RECURSIVE PayoutDelegationsToValidator(_, _, _, _)
PayoutDelegationsToValidator(st, validator, i, epoch) ==
    LET wrapper == st.wrappers[validator] IN
    IF i > Len(wrapper.Delegations) THEN st
    ELSE LET delegation == wrapper.Delegations[i]
             removed == RemoveUnlockedUndelegations(
                            delegation.Undelegations, epoch, wrapper.LastEpochInCommittee,
                            GetLockPeriodInEpoch(epoch), IsNoEarlyUnlock(epoch))
             kept == [st EXCEPT !.wrappers[validator].Delegations[i].Undelegations = removed.left]
             paid == IF removed.totalWithdraw # 0
                     THEN AddBalance(kept, validator, removed.totalWithdraw)
                     ELSE kept
         IN PayoutDelegationsToValidator(paid, validator, i + 1, epoch)

\* The inner loop of payoutUndelegations: delegations i.. of one validator.
RECURSIVE PayoutDelegations(_, _, _, _)
PayoutDelegations(st, validator, i, epoch) ==
    LET wrapper == st.wrappers[validator] IN
    IF i > Len(wrapper.Delegations) THEN st
    ELSE LET delegation == wrapper.Delegations[i]
             removed == RemoveUnlockedUndelegations(
                            delegation.Undelegations, epoch, wrapper.LastEpochInCommittee,
                            GetLockPeriodInEpoch(epoch), IsNoEarlyUnlock(epoch))
             kept == [st EXCEPT !.wrappers[validator].Delegations[i].Undelegations = removed.left]
             paid == IF removed.totalWithdraw # 0
                     THEN AddBalance(kept, delegation.DelegatorAddress, removed.totalWithdraw)
                     ELSE kept
         IN PayoutDelegations(paid, validator, i + 1, epoch)

\* The outer loop of payoutUndelegations: the validators still to visit.  A
\* validator without a wrapper ends the loop with an error; what was paid
\* before stays paid.
RECURSIVE PayoutValidators(_, _, _)
PayoutValidators(st, validators, epoch) ==
    IF validators = <<>> THEN [err |-> nil, state |-> st]
    ELSE IF ~HasWrapper(st, Head(validators))
    THEN [err |-> "[Finalize] failed to get validator from state to finalize", state |-> st]
    ELSE PayoutValidators(PayoutDelegations(st, Head(validators), 1, epoch),
                          Tail(validators), epoch)

\* payoutUndelegations(chain, header, state); validatorList is the result of
\* chain.ReadValidatorList().
payoutUndelegations(validatorList, header, st) ==
    IF validatorList.err # nil
    THEN [err |-> "[Finalize] failed to read all validators", state |-> st]
    ELSE PayoutValidators(st, validatorList.list, header.epoch)

\* The loop of setLastEpochInCommittee over the staked validators of the new
\* shard state.
RECURSIVE SetEpochOf(_, _, _)
SetEpochOf(st, addrs, epoch) ==
    IF addrs = <<>> THEN [err |-> nil, state |-> st]
    ELSE IF ~HasWrapper(st, Head(addrs))
    THEN [err |-> "[Finalize] failed to get validator from state to finalize", state |-> st]
    ELSE SetEpochOf([st EXCEPT !.wrappers[Head(addrs)].LastEpochInCommittee = epoch],
                    Tail(addrs), epoch)

setLastEpochInCommitteeOfHeaderEpoch(header, st) ==
    LET newShardState == header.shardState IN
    IF newShardState.err # nil
    THEN [err |-> "[Finalize] failed to read shard state", state |-> st]
    ELSE SetEpochOf(st, newShardState.staked, header.epoch)

\* setLastEpochInCommittee(header, state).
setLastEpochInCommittee(header, st) ==
    LET newShardState == header.shardState IN
    IF newShardState.err # nil
    THEN [err |-> "[Finalize] failed to read shard state", state |-> st]
    ELSE SetEpochOf(st, newShardState.staked, newShardState.epoch)

\* ---- Finalize ----
\* The call as it starts: the header and state handed in, nothing done yet.
\* `in` holds what the call meets on its way: the result of
\* chain.ReadValidatorList(), the chain's current shard state, the external
\* call that fails if reached (fault), the map order of applySlashes and the
\* value the viewID provider returns.
StartOf(in, st) ==
    [in |-> in, header |-> in.header, state |-> [st EXCEPT !.journal = <<>>],
     err |-> nil, trace |-> <<>>, afterPayout |-> <<>>, slashCalls |-> 0,
     viewIDCalls |-> 0, payout |-> <<>>, block |-> <<>>]

Did(c, what) == [c EXCEPT !.trace = Append(@, what)]
Failed(c, err, st) == [c EXCEPT !.err = err, !.state = st]

\* Phase 1(a): payoutUndelegations.
PhasePayout(c) ==
    IF c.err # nil THEN c
    ELSE LET r == payoutUndelegations(c.in.validatorList, c.header, c.state)
             d == Did(c, "payout")
         IN IF r.err # nil THEN Failed(d, r.err, r.state)
            ELSE [d EXCEPT !.state = r.state, !.afterPayout = <<r.state>>]

\* Phase 1(b): setLastEpochInCommittee.
PhaseSetLastEpoch(c) ==
    IF c.err # nil THEN c
    ELSE LET r == setLastEpochInCommittee(c.header, c.state)
             d == Did(c, "setLastEpochInCommittee")
         IN IF r.err # nil THEN Failed(d, r.err, r.state)
            ELSE [d EXCEPT !.state = r.state]

\* The loop over curShardState.StakedValidators().Addrs.
RECURSIVE EPoSLoop(_, _, _)
EPoSLoop(st, addrs, fault) ==
    IF addrs = <<>> THEN [err |-> nil, state |-> st]
    ELSE IF fault = "epos" \/ ~HasWrapper(st, Head(addrs))
    THEN [err |-> "ComputeAndMutateEPOSStatus", state |-> st]
    ELSE EPoSLoop([st EXCEPT !.journal = Append(@, Mutation("epos", Head(addrs), NoKey))],
                  Tail(addrs), fault)

\* Phase 1(c): chain.ReadShardState(chain.CurrentBlock().Epoch()) and
\* availability.ComputeAndMutateEPOSStatus for each of its staked validators.
PhaseEPoS(c) ==
    IF c.err # nil THEN c
    ELSE LET d == Did(c, "epos") IN
         IF c.in.fault = "readShardState" THEN Failed(d, "read shard state", c.state)
         ELSE LET r == EPoSLoop(c.state, c.in.curStaked, c.in.fault) IN
              IF r.err # nil THEN Failed(d, r.err, r.state) ELSE [d EXCEPT !.state = r.state]

\* The block `if IsCommitteeSelectionBlock(chain, header)`.
PhaseCommitteeSelection(c) ==
    IF IsCommitteeSelectionBlock(c.header)
    THEN PhaseEPoS(PhaseSetLastEpoch(PhasePayout(c)))
    ELSE c

\* Phase 2: AccumulateRewardsAndCountSigs.
PhaseRewards(c) ==
    IF c.err # nil THEN c
    ELSE LET d == Did(c, "rewards") IN
         IF c.in.fault = "rewards" THEN Failed(d, "AccumulateRewardsAndCountSigs", c.state)
         ELSE [d EXCEPT !.state.journal = Append(@, Mutation("rewards", "", NoKey)),
                        !.payout = <<"payout">>]

\* The state after the groups of a run of applySlashes were applied to it.
RECURSIVE Slashed(_, _)
Slashed(st, applied) ==
    IF applied = <<>> THEN st
    ELSE Slashed([st EXCEPT !.journal = Append(@, Mutation("slash", "", Head(applied).key))],
                 Tail(applied))

PhaseSlashesInAnyEra(c) ==
    LET isBeaconChain == c.header.shardID = BeaconChainShardID
    IN
    IF c.err # nil THEN c
    ELSE IF isBeaconChain /\ Len(c.in.doubleSigners) > 0
    THEN LET r == applySlashes(c.in.doubleSigners, c.in.mapOrder, c.in.storedEpochs)
             d == [Did(c, "applySlashes") EXCEPT !.slashCalls = @ + 1,
                                                 !.state = Slashed(c.state, r.applied)]
         IN IF r.err # nil THEN [d EXCEPT !.err = r.err] ELSE d
    ELSE IF Len(c.in.doubleSigners) > 0
    THEN [c EXCEPT !.err = "slashes proposed in non-beacon chain or non-staking epoch"]
    ELSE c

\* Phase 3: the slashes.
PhaseSlashes(c) ==
    LET isBeaconChain == c.header.shardID = BeaconChainShardID
        inStakingEra  == IsStaking(c.header.epoch)
    IN
    IF c.err # nil THEN c
    ELSE IF isBeaconChain /\ inStakingEra /\ Len(c.in.doubleSigners) > 0
    THEN LET r == applySlashes(c.in.doubleSigners, c.in.mapOrder, c.in.storedEpochs)
             d == [Did(c, "applySlashes") EXCEPT !.slashCalls = @ + 1,
                                                 !.state = Slashed(c.state, r.applied)]
         IN IF r.err # nil THEN [d EXCEPT !.err = r.err] ELSE d
    ELSE IF Len(c.in.doubleSigners) > 0
    THEN [c EXCEPT !.err = "slashes proposed in non-beacon chain or non-staking epoch"]
    ELSE c

PhaseViewIDAlways(c) ==
    [Did(c, "SetViewID") EXCEPT !.header.viewID = c.in.viewID, !.viewIDCalls = @ + 1]

\* Phase 4: header.SetViewID(viewID()).
PhaseViewID(c) ==
    IF c.err # nil THEN c
    ELSE [Did(c, "SetViewID") EXCEPT !.header.viewID = c.in.viewID, !.viewIDCalls = @ + 1]

\* state.IntermediateRoot(isS3): the root of the state as it is now.
IntermediateRoot(st, isS3) == [state |-> st, s3 |-> isS3]

\* Phase 5: header.SetRoot(state.IntermediateRoot(...)).
PhaseRoot(c) ==
    IF c.err # nil THEN c
    ELSE [Did(c, "SetRoot") EXCEPT
            !.header.root = <<IntermediateRoot(c.state, IsS3(c.header.epoch))>>]

\* Phase 6: types.NewBlock(header, ...).
PhaseBlock(c) ==
    IF c.err # nil THEN c
    ELSE [Did(c, "NewBlock") EXCEPT !.block = <<c.header>>]

FinalizeLastEpochBeforePayout(in, st) ==
    LET c == StartOf(in, st)
        phase1 == IF IsCommitteeSelectionBlock(c.header)
                  THEN PhaseEPoS(PhasePayout(PhaseSetLastEpoch(c)))
                  ELSE c
    IN PhaseBlock(PhaseRoot(PhaseViewID(PhaseSlashes(PhaseRewards(phase1)))))

\* Finalize: the phases in the order of the source; an error ends the call.
Finalize(in, st) ==
    PhaseBlock(PhaseRoot(PhaseViewID(PhaseSlashes(PhaseRewards(
        PhaseCommitteeSelection(StartOf(in, st)))))))

\* ---- the calls of Finalize ----
NoShardState == [err |-> "no shard state", epoch |-> 0, staked |-> <<>>]

\* header.GetShardState() of the last block of an epoch: the shard state of
\* the next epoch with its staked validators, or bytes that do not decode.
\* Validators are created by staking transactions, which the chain accepts
\* from the pre-staking epoch on: before it no shard state lists one.
ShardStateInputs(epoch) ==
    {[err |-> nil, epoch |-> epoch + 1, staked |-> staked] :
        staked \in IF IsPreStaking(epoch)
                   THEN {<<>>, <<"v2">>, <<"v1", "v2">>, <<"v2", "v3">>}
                   ELSE {<<>>}}
    \cup {[NoShardState EXCEPT !.err = "decode shard state"]}

\* The headers handed to Finalize at an epoch: of the beacon chain or of
\* shard 1, the last block of the epoch or not; view ID and root not yet set.
FinalizeHeader(shardID, epoch, isLast, shardState) ==
    [shardID |-> shardID, epoch |-> epoch, isLastBlockInEpoch |-> isLast,
     shardState |-> shardState, viewID |-> 0, root |-> <<>>]

HeaderInputs(epoch) ==
    {FinalizeHeader(BeaconChainShardID, epoch, TRUE, ss) : ss \in ShardStateInputs(epoch)}
    \cup {FinalizeHeader(BeaconChainShardID, epoch, FALSE, NoShardState)}
    \cup {FinalizeHeader(1, epoch, isLast, NoShardState) : isLast \in BOOLEAN}

\* The external call that fails when the call reaches it.  Only a
\* committee-selection block reaches the first four.
FaultInputs(header) ==
    IF IsCommitteeSelectionBlock(header)
    THEN {"none", "validatorList", "staleValidatorList", "readShardState", "epos", "rewards"}
    ELSE {"none", "rewards"}

\* chain.ReadValidatorList(): the validators of the state, an error, or a
\* list naming a validator the state has no wrapper for.
ValidatorListOf(fault) ==
    IF fault = "validatorList" THEN [err |-> "read validator list", list |-> <<>>]
    ELSE IF fault = "staleValidatorList" THEN [err |-> nil, list |-> <<"v1", "v3", "v2">>]
    ELSE [err |-> nil, list |-> <<"v1", "v2">>]

DoubleSignerInputs ==
    LET rec1 == [height |-> 9, viewID |-> 2, shardID |-> 1, epoch |-> 1, offender |-> "a"]
        rec2 == [height |-> 10, viewID |-> 2, shardID |-> 0, epoch |-> 3, offender |-> "b"]
    IN {<<>>, <<rec1>>, <<rec1, rec2>>}

NewState ==
    [balance  |-> [a \in Accounts |-> 0],
     wrappers |-> [v \in StateValidators |->
                     [LastEpochInCommittee |-> 0, Delegations |-> InitialDelegations(v)]],
     journal  |-> <<>>]

\* A chain at epoch 0 or 1 with no staked validator elected yet, a state
\* with no undelegation pending, no call of Finalize in progress.
InitFinalize ==
    /\ stateDB = NewState
    /\ chain \in {[epoch |-> e, curStaked |-> <<>>] : e \in {0, 1}}
    /\ fin = <<>>
    /\ listed = [v \in StateValidators |-> 0]
    /\ nBlocks = 0
    /\ tip = 0 /\ verifiedSigCache = <<>> /\ epochCtxCache = <<>> /\ call = <<>>
    /\ resolved = {} /\ usedCtx = {}
    /\ evidence = {} /\ storedEpochs = {} /\ runs = <<>>
    /\ batch = <<>> /\ lock = <<>>

PendingUndelegations(st) ==
    LET Count(v) == LET ds == st.wrappers[v].Delegations IN
                    Len(ds[1].Undelegations) + Len(ds[2].Undelegations)
    IN Count("v1") + Count("v2")

\* A staking transaction of a block: a delegator undelegates from a
\* validator in the chain's current epoch.
Undelegate ==
    /\ fin = <<>>
    /\ IsPreStaking(chain.epoch)
    /\ PendingUndelegations(stateDB) < MaxUndelegations
    /\ \E v \in StateValidators, i \in 1..2 :
         stateDB' = [stateDB EXCEPT !.wrappers[v].Delegations[i].Undelegations =
                        Append(@, [Amount |-> UndelegatedAmount(v, i), Epoch |-> chain.epoch])]
    /\ UNCHANGED <<chain, fin, listed, nBlocks, engineVars, slashVars, batchVars, lockVars>>

\* What a call of Finalize is handed at an epoch: any header when there is
\* no evidence and no external call fails; evidence, a failing external call,
\* or both, on the headers with a full or no shard state.
PlainHeaders(epoch) ==
    {h \in HeaderInputs(epoch) :
        /\ h.shardState.err = nil => h.shardState.staked \in {<<>>, <<"v1", "v2">>}
        /\ h.shardID # BeaconChainShardID => ~h.isLastBlockInEpoch}

FinalizeInputs(epoch) ==
    {[header |-> header, fault |-> "none", doubleSigners |-> <<>>] :
        header \in HeaderInputs(epoch)}
    \cup {[header |-> header, fault |-> "none", doubleSigners |-> ds] :
            header \in PlainHeaders(epoch), ds \in DoubleSignerInputs \ {<<>>}}
    \cup UNION {{[header |-> header, fault |-> fault, doubleSigners |-> <<>>] :
                    fault \in FaultInputs(header) \ {"none"}} :
                header \in PlainHeaders(epoch)}
    \cup {[header |-> header, fault |-> "rewards", doubleSigners |-> ds] :
            header \in PlainHeaders(epoch), ds \in {d \in DoubleSignerInputs : Len(d) = 1}}

\* A call of Finalize on the state, for a block of the chain's current epoch.
DoFinalize ==
    /\ fin = <<>>
    /\ nBlocks < MaxBlocks
    /\ \E i \in FinalizeInputs(chain.epoch) :
         \E mapOrder \in Orderings({KeyOf(i.doubleSigners[k]) : k \in DOMAIN i.doubleSigners}) :
            fin' = <<Finalize([header |-> i.header,
                               validatorList |-> ValidatorListOf(i.fault),
                               curStaked |-> chain.curStaked, fault |-> i.fault,
                               doubleSigners |-> i.doubleSigners, mapOrder |-> mapOrder,
                               storedEpochs |-> 0..chain.epoch, viewID |-> 7],
                              stateDB)>>
    /\ UNCHANGED <<stateDB, chain, listed, nBlocks, engineVars, slashVars, batchVars, lockVars>>

\* The caller commits the block Finalize returned: the state becomes the
\* state of the chain, and the last block of a beacon epoch starts the next
\* epoch with the shard state it carries.
CommitBlock ==
    /\ fin # <<>>
    /\ fin[1].err = nil
    /\ LET c == fin[1]
           header == c.in.header
           rollover == header.shardID = BeaconChainShardID /\ header.isLastBlockInEpoch
           elected == IF rollover /\ header.shardState.err = nil
                      THEN Range(header.shardState.staked) ELSE {}
       IN /\ stateDB' = [c.state EXCEPT !.journal = <<>>]
          /\ chain' = IF rollover
                      THEN [epoch |-> header.epoch + 1,
                            curStaked |-> IF header.shardState.err = nil
                                          THEN header.shardState.staked ELSE <<>>]
                      ELSE chain
          /\ listed' = [v \in StateValidators |->
                          IF v \in elected THEN header.shardState.epoch ELSE listed[v]]
    /\ fin' = <<>>
    /\ nBlocks' = nBlocks + 1
    /\ UNCHANGED <<engineVars, slashVars, batchVars, lockVars>>

\* The caller discards the state a failed Finalize left behind.
DiscardBlock ==
    /\ fin # <<>>
    /\ fin[1].err # nil
    /\ fin' = <<>>
    /\ UNCHANGED <<stateDB, chain, listed, nBlocks, engineVars, slashVars, batchVars, lockVars>>

NextFinalize ==
    \/ Undelegate
    \/ DoFinalize
    \/ CommitBlock
    \/ DiscardBlock

SpecFinalize == InitFinalize /\ [][NextFinalize]_vars

(***************************************************************************)
(* GetLockPeriodInEpoch over chain configurations.                         *)
(***************************************************************************)
\* Bound of the model: the highest epoch asked about; a fork set one epoch
\* later is never active.
MaxForkEpoch == 3

\* chain.Config(): every placing of the two forks.
LockConfigs ==
    [RedelegationEpoch : 0..(MaxForkEpoch + 1), QuickUnlockEpoch : 0..(MaxForkEpoch + 1)]

\* A chain of some configuration, not asked yet.
InitLock ==
    /\ lock \in {[config |-> config, epoch |-> 0 - 1, lockPeriod |-> 0] : config \in LockConfigs}
    /\ tip = 0 /\ verifiedSigCache = <<>> /\ epochCtxCache = <<>> /\ call = <<>>
    /\ resolved = {} /\ usedCtx = {}
    /\ evidence = {} /\ storedEpochs = {} /\ runs = <<>>
    /\ stateDB = <<>> /\ chain = <<>> /\ fin = <<>> /\ listed = <<>> /\ nBlocks = 0
    /\ batch = <<>>

\* A call of GetLockPeriodInEpoch(chain, epoch).
DoGetLockPeriod ==
    /\ \E epoch \in 0..MaxForkEpoch :
         lock' = [lock EXCEPT !.epoch = epoch,
                              !.lockPeriod = GetLockPeriodInEpochOn(lock.config, epoch)]
    /\ UNCHANGED <<engineVars, slashVars, finVars, batchVars>>

NextLock == DoGetLockPeriod

SpecLock == InitLock /\ [][NextLock]_vars

(***************************************************************************)
(* Claims about the verification engine, checked under Spec.               *)
(***************************************************************************)
\* The last call was VerifyHeader with seal = true on a header numbered above
\* 1 whose parent the chain holds.
SealedHeaderCall ==
    /\ call.op = "VerifyHeader" /\ call.seal
    /\ call.header.number > 1
    /\ call.target # NoHeader

\* The verdict of the commit verification of the call's parent header against
\* the header's LastCommitSignature and LastCommitBitmap, in the engine as it
\* was when the call was made.
ParentCommitVerdict ==
    verifyHeaderSignatureCached(call.sigCacheBefore, call.ctxCacheBefore, call.target,
                                call.header.lastCommitSig, call.header.lastCommitBitmap).err

\* C1 as stated: whatever the tip, VerifyHeader(H, seal = true) on a header
\* numbered above 1 with a known parent succeeds iff the commit verification
\* of the parent succeeds.
C1_SealIffParentCommit_AnyTip ==
    SealedHeaderCall => (call.err = nil <=> ParentCommitVerdict = nil)

\* C1, amended: when the chain's tip is numbered above 1, VerifyHeader(H,
\* seal = true) on a header numbered above 1 with a known parent succeeds iff
\* the commit verification of the parent against H's last-commit signature
\* and bitmap succeeds.
C1_SealIffParentCommit ==
    (SealedHeaderCall /\ tip > 1) => (call.err = nil <=> ParentCommitVerdict = nil)

\* C1 witness: with the tip above 1, a sealed-header call that went through
\* the full verification of its parent's commit and succeeded.
C1_Witness ==
    /\ SealedHeaderCall /\ tip > 1
    /\ call.err = nil /\ call.steps.blsVerified

\* The last call reached the commit verification (the memo was consulted).
CommitVerified == call.op # "none" /\ call.steps.memoLookup

\* C2: the memoized commit verification agrees with a fresh one: whatever was
\* verified before, verifyHeaderSignatureCached returns success iff
\* verifyHeaderSignature on the same header, signature and bitmap does.
C2_MemoAgreesWithFresh ==
    CommitVerified =>
        (call.err = nil <=>
            verifyHeaderSignature(call.ctxCacheBefore, call.target, call.sig, call.bitmap).err = nil)

\* C7: an epoch context resolved from the chain is installed in the
\* epoch-context cache under (shard, epoch), so that (while no more than the
\* cache's capacity of keys was resolved) every key resolved so far is in
\* the cache, and a verification that finds its key there reads no shard state.
C7_ResolvedContextInstalled ==
    /\ Cardinality(resolved) <= epochCtxCacheSize =>
           \A k \in resolved : LruContains(epochCtxCache, k)
    /\ (call.op # "none" /\ call.steps.ctxHit) => call.steps.source = "none"

\* C8: the bitmap of every key in the verified-signature memo is exactly
\* bitmapKeyBytes long, and a commit verification called with a longer
\* bitmap returns an error.
C8_LongBitmapRejected ==
    /\ \A k \in LruKeys(verifiedSigCache) : Len(k.bitmap) = bitmapKeyBytes
    /\ (CommitVerified /\ Len(call.bitmap) > bitmapKeyBytes) => call.err # nil

\* The result of a call that did nothing: success, both caches as they were,
\* no step taken.
Untouched(sigCache, ctxCache) ==
    [err |-> nil, sigCache |-> sigCache, ctxCache |-> ctxCache, steps |-> NoSteps]

\* C11: with the chain's tip numbered 0 or 1, VerifySeal and
\* VerifyHeaderSignature succeed for any header, signature and bitmap, and
\* resolve no epoch context, neither consult nor change the memo, decode
\* nothing and verify nothing: so for the call just made on such a chain, and
\* so for any call on such a chain with the caches as they are now.
C11_NoVerificationAtEarlyTip ==
    /\ (call.op \in {"VerifySeal", "VerifyHeaderSignature"} /\ tip <= 1) =>
          /\ call.err = nil
          /\ call.steps = NoSteps
          /\ verifiedSigCache = call.sigCacheBefore
          /\ epochCtxCache = call.ctxCacheBefore
    /\ \A t \in 0..1 :
          /\ \A header \in SignedHeaderInputs, sig \in SigInputs, bitmap \in BitmapInputs :
                VerifyHeaderSignature(t, verifiedSigCache, epochCtxCache, header, sig, bitmap)
                    = Untouched(verifiedSigCache, epochCtxCache)
          /\ \A header \in CandidateInputs \cup {NoHeader} :
                VerifySeal(t, verifiedSigCache, epochCtxCache, header)
                    = Untouched(verifiedSigCache, epochCtxCache)

\* With the tip at 0 or 1, a header verified against a forged signature and
\* accepted.
C11_Witness ==
    /\ call.op = "VerifyHeaderSignature"
    /\ tip <= 1
    /\ call.sig = ForgedSig
    /\ call.err = nil

\* C12: the epoch context a commit verification uses for a (shard, epoch) is
\* the same in every verification, whatever was verified before and whatever
\* the epoch-context cache holds: any two verifications of the history used
\* equal contexts for equal keys, namely the keys and the quorum verifier of
\* that shard's committee in that epoch's shard state.
C12_EpochContextIndependent ==
    /\ \A a, b \in usedCtx : a.key = b.key => a.ec = b.ec
    /\ \A u \in usedCtx :
          /\ u.ec.pubKeys = Committee(u.key.shardID, u.key.epoch)
          /\ u.ec.qrVerifier = [isStaking |-> IsStaking(u.key.epoch),
                                total |-> Committee(u.key.shardID, u.key.epoch).slots]

\* A verification of a header of shard 1 that used an epoch context after
\* verifications of other keys had used theirs and the memo had been filled.
C12_Witness ==
    /\ call.op # "none"
    /\ call.steps.ec # <<>>
    /\ call.target.shardID # ChainShardID
    /\ Cardinality(usedCtx) >= 3
    /\ call.sigCacheBefore # <<>>

\* C13: after a commit verification of (H, sig, bitmap) that succeeded
\* through the full verification, the same call made next returns success
\* from the memo, without decoding the bitmap, checking the quorum or
\* verifying the aggregate signature.
C13_RepeatHitsMemo ==
    (CommitVerified /\ call.err = nil /\ call.steps.blsVerified) =>
        LET again == verifyHeaderSignatureCached(verifiedSigCache, epochCtxCache,
                                                 call.target, call.sig, call.bitmap)
        IN /\ again.err = nil
           /\ again.steps.memoHit
           /\ ~again.steps.decoded
           /\ ~again.steps.quorumChecked
           /\ ~again.steps.blsVerified
           /\ again.steps.ec = <<>>

\* A call answered from the memo whose key was the memo's most recent entry:
\* the verification before it was of the same header, signature and bitmap.
C13_Witness ==
    /\ CommitVerified
    /\ call.steps.memoHit
    /\ call.sigCacheBefore # <<>>
    /\ call.sigCacheBefore[Len(call.sigCacheBefore)].key
           = newVerifiedSigKey(call.target.hash, call.sig, call.bitmap)
    /\ call.bitmap = call.sig.by

\* C17: a verification that resolves a shard state recomputes it with the
\* committee-selection function iff the epoch is before the staking era and
\* the shard is not the chain's own, and reads the stored shard state
\* otherwise; an error of the source it used fails the verification before
\* anything is decoded.
C17_RecomputeOnlyCrossShardPreStaking ==
    (call.op # "none" /\ call.steps.source # "none") =>
        LET epoch == call.target.epoch
            recompute == ~IsStaking(epoch) /\ call.target.shardID # ChainShardID
            ss == IF recompute THEN ComputeShardState(epoch) ELSE ReadShardState(epoch)
        IN /\ call.steps.source = IF recompute THEN "Compute" ELSE "ReadShardState"
           /\ ss.err # nil => (call.err # nil /\ ~call.steps.decoded)

\* A header of shard 1 of a pre-staking epoch, verified successfully against
\* the recomputed shard state.
C17_Witness ==
    /\ call.op = "VerifyHeaderSignature"
    /\ call.steps.source = "Compute"
    /\ ~IsStaking(call.target.epoch)
    /\ call.steps.blsVerified
    /\ call.err = nil

(***************************************************************************)
(* Claims about the memo under a stream of commits, checked under SpecMemo.*)
(***************************************************************************)
\* The key of the call just made, and whether the call succeeded through the
\* full verification.
KeyOfCall == newVerifiedSigKey(call.target.hash, call.sig, call.bitmap)
FullySucceeded == CommitVerified /\ ~call.steps.memoHit /\ call.err = nil

\* C18 as stated: the memo's set of keys changes only by a full verification
\* that succeeds, which adds exactly the key of its call; any other call
\* leaves the set as it was.
C18_MemoGrowsOnlyBySuccess ==
    call.op # "none" =>
        LruKeys(verifiedSigCache) =
            IF FullySucceeded
            THEN LruKeys(call.sigCacheBefore) \cup {KeyOfCall}
            ELSE LruKeys(call.sigCacheBefore)

\* C18 amended: a full verification that succeeds adds exactly the key of
\* its call and, when the memo already held verifiedSigCache keys, drops the
\* least recently used one; a verification that fails (at context
\* resolution, decoding, the quorum check or the signature check) and a memo
\* hit leave the set of keys as it was; and every key in the memo is the key
\* of a commit the full verification accepts.
C18_MemoGrowsOnlyBySuccessOrEvicts ==
    /\ call.op # "none" =>
        LET before == call.sigCacheBefore
            evicted == IF Len(before) = verifiedSigCacheSize THEN {before[1].key} ELSE {}
        IN LruKeys(verifiedSigCache) =
               IF FullySucceeded
               THEN (LruKeys(before) \cup {KeyOfCall}) \ evicted
               ELSE LruKeys(before)
    /\ \A k \in LruKeys(verifiedSigCache) :
          /\ k = newVerifiedSigKey(MemoHeader.hash, k.signature, <<k.bitmap[1]>>)
          /\ verifyHeaderSignature(<<>>, MemoHeader, k.signature, <<k.bitmap[1]>>).err = nil

\* A full verification that succeeded on a full memo.
C18_Witness ==
    /\ FullySucceeded
    /\ Len(call.sigCacheBefore) = verifiedSigCacheSize
    /\ KeyOfCall \in LruKeys(verifiedSigCache)

(***************************************************************************)
(* Claims about applySlashes, checked under SpecSlash.                     *)
(***************************************************************************)
\* (shardID, height, viewID) of a before that of b, lexicographically.
LexBefore(a, b) ==
    \/ a.shardID < b.shardID
    \/ a.shardID = b.shardID /\ a.height < b.height
    \/ a.shardID = b.shardID /\ a.height = b.height /\ a.viewID < b.viewID

\* C3: applySlashes is deterministic in its evidence set: any two runs on the
\* same set of records, whatever the order of the records and whatever the
\* iteration order of the grouping map, pass the groups to slash.Rate and
\* slash.Apply in the same order of keys and end with the same result.
C3_SlashOrderDeterministic ==
    \A i, j \in DOMAIN runs :
        KeyOrder(runs[i]) = KeyOrder(runs[j]) /\ runs[i].err = runs[j].err

\* C4: the groups are applied in ascending lexicographic order of
\* (shardID, height, viewID): of two groups applied one after the other, the
\* later one is never lexicographically before the earlier one.
C4_SlashOrderLexicographic ==
    \A r \in DOMAIN runs :
        \A i \in 1..(Len(runs[r].applied) - 1) :
            ~LexBefore(runs[r].applied[i + 1].key, runs[r].applied[i].key)

(***************************************************************************)
(* Claims about VerifyHeaders, checked under SpecBatch and SpecBatchLive.  *)
(***************************************************************************)
\* C14: once the caller has closed abort the worker starts no further
\* verification (the one in progress may finish) and sends no further
\* result.
C14_AbortHonoredPromptly ==
    batch.aborted =>
        /\ batch.started = batch.atAbort.started
        /\ Len(batch.sent) = batch.atAbort.sent

\* The verdicts of VerifyHeader on the items of a batch, one after the other
\* from the first, each on the caches the one before left.
RECURSIVE VerdictsInOrder(_, _, _, _)
VerdictsInOrder(items, t, sigCache, ctxCache) ==
    IF items = <<>> THEN <<>>
    ELSE LET r == VerifyHeader(t, sigCache, ctxCache, Head(items).header, Head(items).seal)
         IN <<r.err>> \o VerdictsInOrder(Tail(items), t, r.sigCache, r.ctxCache)

C20_WorkerTerminates ==
    /\ [](batch.pc = "select" => Len(batch.results) < ResultsCap(batch.headers))
    /\ [](batch.started <= Len(batch.headers))
    /\ <>(batch.pc = "done")

\* The worker at its end with every result of a batch of two still in the
\* channel and abort never raised.
C20_Witness ==
    /\ batch.pc = "done"
    /\ ~batch.aborted
    /\ Len(batch.headers) = 2
    /\ Len(batch.results) = 2

(***************************************************************************)
(* Claims about GetLockPeriodInEpoch, checked under SpecLock.              *)
(***************************************************************************)
\* C16: GetLockPeriodInEpoch returns the V2 lock period when QuickUnlock is
\* active at the epoch and the default lock period when it is not, wherever
\* the configuration places the Redelegation and QuickUnlock forks.
C16_LockPeriodFollowsQuickUnlock ==
    lock.epoch >= 0 =>
        lock.lockPeriod = IF lock.epoch >= lock.config.QuickUnlockEpoch
                          THEN LockPeriodInEpochV2
                          ELSE LockPeriodInEpoch

(***************************************************************************)
(* Claims about Finalize, checked under SpecFinalize.  While a call's      *)
(* result is held in fin, stateDB is still the state the call started on.  *)
(***************************************************************************)
\* The place of each step in the order of Finalize.
PhaseRank(step) ==
    CASE step = "payout"                  -> 1
      [] step = "setLastEpochInCommittee" -> 2
      [] step = "epos"                    -> 3
      [] step = "rewards"                 -> 4
      [] step = "applySlashes"            -> 5
      [] step = "SetViewID"               -> 6
      [] step = "SetRoot"                 -> 7
      [] step = "NewBlock"                -> 8

RECURSIVE SumOver(_, _)
SumOver(f, S) ==
    IF S = {} THEN 0
    ELSE LET x == CHOOSE y \in S : TRUE IN f[x] + SumOver(f, S \ {x})

\* The delegations (validator, index) of the validators of a list.
DelegationsOf(st, list) ==
    {<<v, i>> \in Range(list) \X (1..2) : i \in DOMAIN st.wrappers[v].Delegations}

\* What the delegation (v, i) of the state may withdraw at the epoch, given
\* the validator's LastEpochInCommittee in that state.
Withdrawable(st, v, i, epoch) ==
    RemoveUnlockedUndelegations(
        st.wrappers[v].Delegations[i].Undelegations, epoch,
        st.wrappers[v].LastEpochInCommittee,
        GetLockPeriodInEpoch(epoch), IsNoEarlyUnlock(epoch)).totalWithdraw

\* The sum of the withdrawable amounts of an account's delegations.
CreditOf(st, list, account, epoch) ==
    LET mine == {d \in DelegationsOf(st, list) :
                    st.wrappers[d[1]].Delegations[d[2]].DelegatorAddress = account}
    IN SumOver([d \in mine |-> Withdrawable(st, d[1], d[2], epoch)], mine)

\* C5: the steps of a call of Finalize happen in the order payout,
\* LastEpochInCommittee update, EPoS status, rewards, slashes, view ID, root,
\* block; a call that succeeds made all the steps its header asks for; the
\* payout credits what each delegation may withdraw under the
\* LastEpochInCommittee the state had before the call; and the root the
\* header carries is the root of the state as the call leaves it, after every
\* mutation of the first three phases.
C5_FinalizePhaseOrder ==
    fin # <<>> =>
        LET c == fin[1]
            steps == Range(c.trace)
        IN /\ \A i, j \in DOMAIN c.trace :
                i < j => PhaseRank(c.trace[i]) < PhaseRank(c.trace[j])
           /\ c.afterPayout # <<>> =>
                \A a \in Accounts :
                    c.afterPayout[1].balance[a] =
                        stateDB.balance[a]
                        + CreditOf(stateDB, c.in.validatorList.list, a, c.in.header.epoch)
           /\ c.err = nil =>
                /\ {"rewards", "SetViewID", "SetRoot", "NewBlock"} \subseteq steps
                /\ IsCommitteeSelectionBlock(c.in.header) <=> "payout" \in steps
                /\ "payout" \in steps <=> "setLastEpochInCommittee" \in steps
                /\ "payout" \in steps <=> "epos" \in steps
                /\ c.in.doubleSigners # <<>> <=> "applySlashes" \in steps
                /\ c.header.root = <<IntermediateRoot(c.state, IsS3(c.header.epoch))>>
                /\ c.block = <<c.header>>

\* A call that made all eight steps, paid out an undelegation unlocked early
\* under the old LastEpochInCommittee of a validator and then moved that
\* validator's LastEpochInCommittee to the new epoch.
C5_Witness ==
    /\ fin # <<>>
    /\ fin[1].err = nil
    /\ Len(fin[1].trace) = 8
    /\ \E v \in Range(fin[1].in.header.shardState.staked), i \in 1..2 :
         /\ Withdrawable(stateDB, v, i, fin[1].in.header.epoch) > 0
         /\ Withdrawable([stateDB EXCEPT !.wrappers[v].LastEpochInCommittee =
                             fin[1].state.wrappers[v].LastEpochInCommittee],
                         v, i, fin[1].in.header.epoch) = 0

WrongChainError == "slashes proposed in non-beacon chain or non-staking epoch"

OnBeaconInStakingEra(header) ==
    header.shardID = BeaconChainShardID /\ IsStaking(header.epoch)

\* C6 as stated: any call of Finalize with evidence on a header that is not
\* both of the beacon chain and in the staking era returns the wrong-chain
\* error and no block without invoking applySlashes, and any call with
\* evidence on a beacon header in the staking era invokes applySlashes
\* exactly once.
C6_WrongChainAnyCall ==
    (fin # <<>> /\ fin[1].in.doubleSigners # <<>>) =>
        LET c == fin[1] IN
        IF OnBeaconInStakingEra(c.in.header)
        THEN c.slashCalls = 1
        ELSE c.err = WrongChainError /\ c.block = <<>> /\ c.slashCalls = 0

\* C6 amended: a call of Finalize whose committee-selection handling and
\* reward accumulation completed without error behaves as C6 says; a call
\* that failed before the slash step never invokes applySlashes and returns
\* no block.
C6_WrongChainAfterRewards ==
    (fin # <<>> /\ fin[1].in.doubleSigners # <<>>) =>
        LET c == fin[1] IN
        IF c.payout = <<>>
        THEN c.err # nil /\ c.block = <<>> /\ c.slashCalls = 0
        ELSE IF OnBeaconInStakingEra(c.in.header)
        THEN c.slashCalls = 1
        ELSE c.err = WrongChainError /\ c.block = <<>> /\ c.slashCalls = 0

\* A call with evidence on a beacon header before the staking era that got
\* past the rewards and was rejected.
C6_Witness ==
    /\ fin # <<>>
    /\ fin[1].in.doubleSigners # <<>>
    /\ fin[1].in.header.shardID = BeaconChainShardID
    /\ ~IsStaking(fin[1].in.header.epoch)
    /\ fin[1].payout # <<>>
    /\ fin[1].err = WrongChainError

LastEpochInCommitteeOf(st) ==
    [v \in StateValidators |-> st.wrappers[v].LastEpochInCommittee]

\* C9: a successful Finalize of a committee-selection block leaves every
\* staked validator of the header's shard state with LastEpochInCommittee
\* equal to that shard state's epoch; a successful Finalize of any other
\* block leaves every LastEpochInCommittee as it was; and in the state of
\* the chain each validator's LastEpochInCommittee is the epoch of the
\* newest committed shard state listing it (0 while none has).
C9_LastEpochInCommittee ==
    /\ LastEpochInCommitteeOf(stateDB) = listed
    /\ (fin # <<>> /\ fin[1].err = nil) =>
         LET c == fin[1]
             newShardState == c.in.header.shardState
         IN IF IsCommitteeSelectionBlock(c.in.header)
            THEN \A v \in StateValidators :
                    c.state.wrappers[v].LastEpochInCommittee =
                        IF v \in Range(newShardState.staked)
                        THEN newShardState.epoch
                        ELSE stateDB.wrappers[v].LastEpochInCommittee
            ELSE LastEpochInCommitteeOf(c.state) = LastEpochInCommitteeOf(stateDB)

\* Two committee-selection blocks committed, the first listing both
\* validators and the second only one of them.
C9_Witness ==
    /\ fin = <<>>
    /\ listed["v1"] = 2
    /\ listed["v2"] = 3
    /\ LastEpochInCommitteeOf(stateDB) = listed

\* The accounts AddBalance was called for, in a journal.
Credited(journal) ==
    {journal[k].addr : k \in {n \in DOMAIN journal : journal[n].kind = "credit"}}

\* C10: when payoutUndelegations succeeds, each account's balance has grown
\* by the sum of the withdrawable amounts of its delegations over the
\* validators of the list, AddBalance was called only for accounts with a
\* non-zero amount, and no LastEpochInCommittee has changed.
C10_PayoutFrame ==
    (fin # <<>> /\ fin[1].afterPayout # <<>>) =>
        LET c == fin[1]
            after == c.afterPayout[1]
            Credit(a) == CreditOf(stateDB, c.in.validatorList.list, a, c.in.header.epoch)
        IN /\ \A a \in Accounts : after.balance[a] = stateDB.balance[a] + Credit(a)
           /\ Credited(after.journal) = {a \in Accounts : Credit(a) # 0}
           /\ LastEpochInCommitteeOf(after) = LastEpochInCommitteeOf(stateDB)

\* A payout that credits one delegator for its delegations to two validators
\* and leaves another account's pending undelegation locked.
C10_Witness ==
    /\ fin # <<>>
    /\ fin[1].afterPayout # <<>>
    /\ Withdrawable(stateDB, "v1", 1, fin[1].in.header.epoch) > 0
    /\ Withdrawable(stateDB, "v2", 2, fin[1].in.header.epoch) > 0
    /\ fin[1].afterPayout[1].balance["d1"] > stateDB.balance["d1"]

\* C19: whenever Finalize returns an error, header.SetViewID and
\* header.SetRoot were not called and the viewID provider was not invoked:
\* the header's view ID and state root are those it was handed with, and no
\* block is returned.
C19_ErrorLeavesHeaderUntouched ==
    (fin # <<>> /\ fin[1].err # nil) =>
        LET c == fin[1]
            steps == {c.trace[k] : k \in DOMAIN c.trace}
        IN /\ c.viewIDCalls = 0
           /\ "SetViewID" \notin steps
           /\ "SetRoot" \notin steps
           /\ c.header.viewID = c.in.header.viewID
           /\ c.header.root = c.in.header.root
           /\ c.block = <<>>

\* A call that failed in applySlashes, the last step that can fail, after
\* the rewards were accumulated.
C19_Witness ==
    /\ fin # <<>>
    /\ fin[1].err # nil
    /\ fin[1].slashCalls = 1
    /\ fin[1].payout # <<>>
    /\ fin[1].header = fin[1].in.header

=============================================================================
